---- MODULE Spec2Model ----
(***************************************************************************)
(* Model of the stress-test script (src/newrelic.js, lines 45-344): the    *)
(* configuration resolution (module load + parseArgs), the batch scheduler *)
(* runStressTest, the request executor makeRequest, the join of a batch    *)
(* (executeConcurrentRequests / Promise.all) and the report of             *)
(* printStatistics / calculatePercentile.                                  *)
(*                                                                         *)
(* One action is one run-to-completion step of the Node.js event loop: the *)
(* code between two awaits runs atomically.                                *)
(***************************************************************************)
EXTENDS Integers, Sequences, FiniteSets, TLC

\* ------------------------------------------------------------------ bounds
\* Largest --total / TOTAL_REQUESTS value a modelled run is started with.
MaxTotal == 3
\* Largest --concurrent / CONCURRENT_REQUESTS value a modelled run is started with.
MaxConc == 3
\* Elapsed times of a request are drawn from 1..MaxRT (milliseconds).
MaxRT == 2
\* The run's wall-clock duration is drawn from 1..MaxDuration.
MaxDuration == 2
\* Sample lists handed to calculatePercentile on its own have at most MaxLen elements.
MaxLen == 3
\* The request counts and concurrencies of the batch plans that are computed
\* without running their requests.
MaxBatchTotal == 12
MaxBatchConc == 5

\* ------------------------------------------------------- JavaScript numbers
\* A JS number the code can compute: a finite integer, NaN, Infinity or
\* -Infinity.  (Inputs are non-negative, so -0 never arises.)
Num(n) == [k |-> "num", v |-> n]
NaN == [k |-> "NaN", v |-> 0]
Infinity == [k |-> "Infinity", v |-> 0]
NegInfinity == [k |-> "-Infinity", v |-> 0]

IsNaN(x) == x.k = "NaN"
IsNum(x) == x.k = "num"

\* a < b, a <= b, a > b on JS numbers: every comparison with NaN is false.
JsLt(a, b) ==
  /\ ~IsNaN(a) /\ ~IsNaN(b)
  /\ \/ a.k = "-Infinity" /\ b.k # "-Infinity"
     \/ IsNum(a) /\ b.k = "Infinity"
     \/ IsNum(a) /\ IsNum(b) /\ a.v < b.v

JsLe(a, b) ==
  /\ ~IsNaN(a) /\ ~IsNaN(b)
  /\ (a = b \/ JsLt(a, b))

JsGt(a, b) == JsLt(b, a)

\* a - b
JsSub(a, b) ==
  IF IsNaN(a) \/ IsNaN(b) THEN NaN
  ELSE IF IsNum(a) /\ IsNum(b) THEN Num(a.v - b.v)
  ELSE IF IsNum(a) THEN (IF b.k = "Infinity" THEN NegInfinity ELSE Infinity)
  ELSE IF IsNum(b) THEN a
  ELSE IF a = b THEN NaN ELSE a

\* a * b (0 * Infinity is NaN)
JsMul(a, b) ==
  IF IsNaN(a) \/ IsNaN(b) THEN NaN
  ELSE IF IsNum(a) /\ IsNum(b) THEN Num(a.v * b.v)
  ELSE IF a = Num(0) \/ b = Num(0) THEN NaN
  ELSE IF JsLt(a, Num(0)) = JsLt(b, Num(0)) THEN Infinity ELSE NegInfinity

\* Math.ceil(a / b), for a >= 0 and b >= 0
MathCeilDiv(a, b) ==
  IF IsNaN(a) \/ IsNaN(b) THEN NaN
  ELSE IF IsNum(a) /\ IsNum(b) THEN
         (IF b.v = 0
            THEN (IF a.v = 0 THEN NaN ELSE IF a.v > 0 THEN Infinity ELSE NegInfinity)
            ELSE Num(-((-a.v) \div b.v)))
  ELSE IF IsNum(a) THEN Num(0)
  ELSE IF IsNum(b) THEN a
  ELSE NaN

\* Math.min(a, b)
MathMin(a, b) ==
  IF IsNaN(a) \/ IsNaN(b) THEN NaN
  ELSE IF JsLt(a, b) THEN a ELSE b

\* Math.max(a, b)
MathMax(a, b) ==
  IF IsNaN(a) \/ IsNaN(b) THEN NaN
  ELSE IF JsLt(a, b) THEN b ELSE a

\* (n / d).toFixed(2) for integers n >= 0, d >= 0, as a number of hundredths
\* rounded to nearest; NaN for 0/0 and Infinity for n/0.
DivFixed2(n, d) ==
  IF d = 0 THEN (IF n = 0 THEN NaN ELSE Infinity)
  ELSE Num((200 * n + d) \div (2 * d))

\* ------------------------------------------------------------ configuration
\* process.env.X of a variable that is not set, and args[i] past the end.
Undefined == "undefined"

\* The decimal strings of the model.
DigitStr == [n \in 0..9 |->
  CASE n = 0 -> "0" [] n = 1 -> "1" [] n = 2 -> "2" [] n = 3 -> "3" [] n = 4 -> "4"
    [] n = 5 -> "5" [] n = 6 -> "6" [] n = 7 -> "7" [] n = 8 -> "8" [] n = 9 -> "9"]

\* parseInt(s): the integer a string starts with, NaN when it starts with none
\* (parseInt(undefined) parses the string "undefined").
parseInt(s) ==
  IF \E n \in 0..9 : DigitStr[n] = s
    THEN Num(CHOOSE n \in 0..9 : DigitStr[n] = s)
  ELSE IF s = "2ms" THEN Num(2)
  ELSE NaN

\* x || d on a number x: d when x is 0 or NaN.
NumOr(x, d) == IF IsNaN(x) \/ x = Num(0) THEN d ELSE x

\* s || d on a string-or-undefined s: d when s is undefined or empty.
StrOr(s, d) == IF s = Undefined \/ s = "" THEN d ELSE s

DefaultBaseURL == "http://localhost:3000"
DefaultConcurrentRequests == 10
DefaultTotalRequests == 100
DefaultDelayBetweenBatches == 1000
DefaultTimeout == 5000

\* The CONFIG object as built when the module is loaded.
LoadConfig(e) ==
  [ baseURL             |-> StrOr(e.BASE_URL, DefaultBaseURL),
    endpoint            |-> "/pi",
    concurrentRequests  |-> NumOr(parseInt(e.CONCURRENT_REQUESTS), Num(DefaultConcurrentRequests)),
    totalRequests       |-> NumOr(parseInt(e.TOTAL_REQUESTS), Num(DefaultTotalRequests)),
    delayBetweenBatches |-> NumOr(parseInt(e.DELAY_BETWEEN_BATCHES), Num(DefaultDelayBetweenBatches)),
    timeout             |-> NumOr(parseInt(e.TIMEOUT), Num(DefaultTimeout)),
    verbose             |-> (e.VERBOSE = "true") ]

\* args[i] (1-based here), undefined past the end.
ArgAt(args, i) == IF i \in 1..Len(args) THEN args[i] ELSE Undefined

\* The for/switch loop of parseArgs from position i on: the resulting CONFIG
\* and whether --help ended the process.
RECURSIVE ParseArgsFrom(_, _, _)
ParseArgsFrom(args, i, cfg) ==
  IF i > Len(args) THEN [cfg |-> cfg, help |-> FALSE]
  ELSE LET arg == args[i] IN
    CASE arg = "--help" \/ arg = "-h" -> [cfg |-> cfg, help |-> TRUE]
      [] arg = "--concurrent" ->
           ParseArgsFrom(args, i + 2,
                         [cfg EXCEPT !.concurrentRequests = parseInt(ArgAt(args, i + 1))])
      [] arg = "--total" ->
           ParseArgsFrom(args, i + 2,
                         [cfg EXCEPT !.totalRequests = parseInt(ArgAt(args, i + 1))])
      [] arg = "--delay" ->
           ParseArgsFrom(args, i + 2,
                         [cfg EXCEPT !.delayBetweenBatches = parseInt(ArgAt(args, i + 1))])
      [] arg = "--timeout" ->
           ParseArgsFrom(args, i + 2,
                         [cfg EXCEPT !.timeout = parseInt(ArgAt(args, i + 1))])
      [] arg = "--base-url" ->
           ParseArgsFrom(args, i + 2, [cfg EXCEPT !.baseURL = ArgAt(args, i + 1)])
      [] arg = "--verbose" ->
           ParseArgsFrom(args, i + 1, [cfg EXCEPT !.verbose = TRUE])
      [] OTHER -> ParseArgsFrom(args, i + 1, cfg)

parseArgs(args, cfg) == ParseArgsFrom(args, 1, cfg)


\* --------------------------------------------------------------- statistics
\* The stats object as created when the module is loaded.
InitStats ==
  [ totalRequests      |-> 0,
    successfulRequests |-> 0,
    failedRequests     |-> 0,
    totalResponseTime  |-> 0,
    minResponseTime    |-> Infinity,
    maxResponseTime    |-> Num(0),
    responseTimes      |-> << >>,
    startTime          |-> 0,
    endTime            |-> 0,
    errors             |-> << >> ]

\* (mutant) the counter is bumped in the try block and again in finally
FinallyTwice(st) == [st EXCEPT !.totalRequests = @ + 2]

\* The finally block of makeRequest.
Finally(st) == [st EXCEPT !.totalRequests = @ + 1]

\* makeRequest after api.get resolved: the try block's statistics update, then
\* the finally block.
RecordSuccess(st, responseTime) ==
  Finally([st EXCEPT
    !.successfulRequests = @ + 1,
    !.totalResponseTime  = @ + responseTime,
    !.minResponseTime    = MathMin(@, Num(responseTime)),
    !.maxResponseTime    = MathMax(@, Num(responseTime)),
    !.responseTimes      = Append(@, responseTime)])

\* (mutant) totalRequests++ sits at the end of the try block, not in finally
RecordFailureUncounted(st, requestId, message, responseTime) ==
  [st EXCEPT
    !.failedRequests = @ + 1,
    !.errors = Append(@, [requestId |-> requestId, error |-> message,
                          responseTime |-> responseTime])]

\* (mutant) the catch block also accounts the elapsed time of the failure
RecordFailureTimed(st, requestId, message, responseTime) ==
  Finally([st EXCEPT
    !.failedRequests = @ + 1,
    !.totalResponseTime = @ + responseTime,
    !.maxResponseTime = MathMax(@, Num(responseTime)),
    !.errors = Append(@, [requestId |-> requestId, error |-> message,
                          responseTime |-> responseTime])])

\* (mutant) the catch block counts the failure without pushing it to errors
RecordFailureUnlogged(st, requestId, message, responseTime) ==
  Finally([st EXCEPT !.failedRequests = @ + 1])

\* makeRequest after api.get rejected: the catch block's statistics update,
\* then the finally block.
RecordFailure(st, requestId, message, responseTime) ==
  Finally([st EXCEPT
    !.failedRequests = @ + 1,
    !.errors = Append(@, [requestId |-> requestId, error |-> message,
                          responseTime |-> responseTime])])

\* ------------------------------------------------------------------- report
RECURSIVE Insert(_, _)
Insert(sorted, x) ==
  IF sorted = << >> THEN << x >>
  ELSE IF x - Head(sorted) < 0 THEN << x >> \o sorted
  ELSE << Head(sorted) >> \o Insert(Tail(sorted), x)

\* values.sort((a, b) => a - b)
RECURSIVE SortAscending(_)
SortAscending(values) ==
  IF values = << >> THEN << >>
  ELSE Insert(SortAscending(SubSeq(values, 1, Len(values) - 1)), values[Len(values)])

\* (mutant) Math.floor in place of Math.ceil
PercentileIndexFloor(length, percentile) == ((percentile * length) \div 100) - 1

\* Math.ceil((percentile / 100) * length) - 1, a 0-based index.  The exact
\* quotient: the double-precision product rounds to it for every length below
\* 2000 at the percentiles the script asks for (50, 90, 95, 99), and for every
\* percentile in 1..100 at lengths below 25.
PercentileIndex(length, percentile) == (-((-(percentile * length)) \div 100)) - 1

\* calculatePercentile(values, percentile): the array as the in-place sort
\* leaves it, and the returned value (sorted[index] || 0).
calculatePercentile(values, percentile) ==
  LET sorted == SortAscending(values)
      index  == PercentileIndex(Len(sorted), percentile)
  IN [ sorted |-> sorted,
       index  |-> index,
       result |-> IF index \in 0..(Len(sorted) - 1) THEN sorted[index + 1] ELSE 0 ]

\* An error message is the sequence of its colon-free segments, so that
\* message.split(':') is the sequence itself.
\* error.error.split(':')[0] || error.error
ErrorKey(message) == IF message[1] # "" THEN << message[1] >> ELSE message

\* The errorTypes object of printStatistics: occurrences per error key.
ErrorTypes(errors) ==
  [ key \in { ErrorKey(errors[i].error) : i \in 1..Len(errors) } |->
      Cardinality({ i \in 1..Len(errors) : ErrorKey(errors[i].error) = key }) ]

\* Success Rate: (successfulRequests / totalRequests) * 100, toFixed(2)
SuccessRate(st) == DivFixed2(100 * st.successfulRequests, st.totalRequests)

\* Requests/Second: totalRequests / (duration / 1000), toFixed(2)
RequestsPerSecond(st) == DivFixed2(1000 * st.totalRequests, st.endTime - st.startTime)

\* What printStatistics prints.
printStatistics(st) ==
  [ duration          |-> st.endTime - st.startTime,
    totalRequests     |-> st.totalRequests,
    successful        |-> st.successfulRequests,
    failed            |-> st.failedRequests,
    successRate       |-> SuccessRate(st),
    requestsPerSecond |-> RequestsPerSecond(st),
    avgResponseTime   |-> IF st.successfulRequests > 0
                            THEN DivFixed2(st.totalResponseTime, st.successfulRequests)
                            ELSE Num(0),
    percentiles       |-> IF st.successfulRequests > 0
                            THEN [ p \in {50, 90, 95, 99} |->
                                     calculatePercentile(st.responseTimes, p).result ]
                            ELSE << >>,
    errorTypes        |-> ErrorTypes(st.errors) ]

\* stats after printStatistics: the percentile calls sort responseTimes in place.
StatsAfterPrint(st) ==
  IF st.successfulRequests > 0
    THEN [st EXCEPT !.responseTimes = calculatePercentile(@, 50).sorted]
    ELSE st

\* ------------------------------------------------------------------- state
VARIABLES
  env,              \* process.env as the script reads it
  argv,             \* process.argv.slice(2)
  CONFIG,           \* the CONFIG object
  stats,            \* the stats object
  pc,               \* where the driver (main / runStressTest) stands
  batch,            \* runStressTest: the loop variable
  numBatches,       \* runStressTest: const numBatches
  requestsPerBatch, \* runStressTest: const requestsPerBatch
  requests,         \* every makeRequest call of the run, in issue order
  batchSizes,       \* the currentBatchSize of every batch executed, in order
  report,           \* what printStatistics printed
  exitCode,         \* the process's exit code, once it has one
  suspensions,      \* how many inter-batch delays the driver has begun
  pctCall,          \* a call of calculatePercentile on its own
  agent,            \* the service: exports.config as the New Relic agent loads it
  served            \* the service: every request handled, with its responses

vars == << env, argv, CONFIG, stats, pc, batch, numBatches, requestsPerBatch,
           requests, batchSizes, report, exitCode, suspensions, pctCall,
           agent, served >>

NoReport == [ printed |-> FALSE ]
NoExit == { }
NoAgent == [ loaded |-> FALSE ]
NoCall == [ values |-> << >>, percentile |-> 0, returned |-> FALSE,
            sorted |-> << >>, index |-> 0, result |-> 0 ]

\* ------------------------------------------------------------------ inputs
EnvUnset ==
  [ BASE_URL |-> Undefined, CONCURRENT_REQUESTS |-> Undefined,
    TOTAL_REQUESTS |-> Undefined, DELAY_BETWEEN_BATCHES |-> Undefined,
    TIMEOUT |-> Undefined, VERBOSE |-> Undefined ]

\* The environments a run is started in: nothing set; every variable set;
\* the variables set to 0, to the empty string or to no number.
Envs ==
  { EnvUnset,
    [ BASE_URL |-> "http://env:8080", CONCURRENT_REQUESTS |-> "2",
      TOTAL_REQUESTS |-> "3", DELAY_BETWEEN_BATCHES |-> "5",
      TIMEOUT |-> "2ms", VERBOSE |-> "true" ],
    [ BASE_URL |-> "", CONCURRENT_REQUESTS |-> "abc",
      TOTAL_REQUESTS |-> "0", DELAY_BETWEEN_BATCHES |-> "0",
      TIMEOUT |-> Undefined, VERBOSE |-> "false" ] }

\* The command lines a run is started with.
ArgsConcurrent ==
  { << >>, << "--concurrent", "abc" >> }
    \cup { << "--concurrent", DigitStr[n] >> : n \in 0..MaxConc }
ArgsTotal ==
  { << >>, << "--total", "abc" >> }
    \cup { << "--total", DigitStr[n] >> : n \in 0..MaxTotal }
ArgsRest ==
  { << >>, << "--delay", "0" >>, << "--help" >>,
    << "--delay", "7", "--timeout", "9", "--base-url", "http://cli:8080",
       "--verbose", "--bogus" >> }
Argvs ==
  { a \o b \o c : a \in ArgsConcurrent, b \in ArgsTotal, c \in ArgsRest }

\* The runs the model follows: the request count and the concurrency within
\* the bounds (a NaN of either runs no batch at all).
WithinBounds(cfg) ==
  /\ IsNaN(cfg.totalRequests) \/ JsLe(cfg.totalRequests, Num(MaxTotal))
  /\ IsNaN(cfg.concurrentRequests) \/ JsLe(cfg.concurrentRequests, Num(MaxConc))

\* What api.get can settle with: an elapsed time, and the rejection's message.
ResponseTimes == 1..MaxRT
ErrorMessages == { << "Network Error" >>, << "connect ECONNREFUSED 127.0.0.1", "3000" >> }

\* --------------------------------------------------------- batch scheduler
\* (mutant) Math.floor in place of Math.ceil
NumBatchesFloor(cfg) ==
  IF IsNum(cfg.totalRequests) /\ IsNum(cfg.concurrentRequests) /\ cfg.concurrentRequests.v > 0
    THEN Num(cfg.totalRequests.v \div cfg.concurrentRequests.v)
    ELSE MathCeilDiv(cfg.totalRequests, cfg.concurrentRequests)

\* (mutant) one batch more than Math.ceil(totalRequests / concurrentRequests)
NumBatchesPlusOne(cfg) ==
  JsSub(MathCeilDiv(cfg.totalRequests, cfg.concurrentRequests), Num(-1))

NumBatches(cfg) == MathCeilDiv(cfg.totalRequests, cfg.concurrentRequests)

RequestsPerBatch(cfg, nb) == MathCeilDiv(cfg.totalRequests, nb)

\* (mutant) the batch size is not capped by the remaining requests
CurrentBatchSizeUncapped(cfg, rpb, b) == rpb

\* remainingRequests and currentBatchSize of loop iteration b
CurrentBatchSize(cfg, rpb, b) ==
  LET remainingRequests == JsSub(cfg.totalRequests, JsMul(Num(b), rpb))
  IN MathMin(rpb, remainingRequests)

\* executeConcurrentRequests: requestId of the i-th request (i from 0)
RequestId(batchNumber, batchSize, i) == batchNumber * batchSize + i + 1

\* executeConcurrentRequests: the makeRequest calls it makes, each suspended at
\* its await of api.get.  (i < batchSize is false at once for NaN; an infinite
\* batchSize is never passed.)
executeConcurrentRequests(batchNumber, batchSize) ==
  IF IsNum(batchSize) /\ batchSize.v > 0
    THEN [ i \in 1..batchSize.v |->
             [ batch     |-> batchNumber,
               requestId |-> RequestId(batchNumber, batchSize.v, i - 1),
               result    |-> "pending" ] ]
    ELSE << >>

\* (mutant) Promise.race in place of Promise.all: settled once any one is
PromiseRace(reqs, b) ==
  \E i \in 1..Len(reqs) : reqs[i].batch = b /\ reqs[i].result # "pending"

\* (mutant) the join is passed only when every request of the batch succeeded
PromiseAllSucceeded(reqs, b) ==
  \A i \in 1..Len(reqs) : reqs[i].batch = b => reqs[i].result = "success"

\* Promise.all over the promises of batch b: fulfilled once every one is.
\* (makeRequest catches every rejection, so its promise never rejects.)
PromiseAll(reqs, b) ==
  \A i \in 1..Len(reqs) : reqs[i].batch = b => reqs[i].result # "pending"

\* (mutant) the delay is not skipped after the last batch
DelayDueAlways(cfg, nb, b) == JsGt(cfg.delayBetweenBatches, Num(0))

\* The condition of the inter-batch delay.
DelayDue(cfg, nb, b) ==
  JsLt(Num(b), JsSub(nb, Num(1))) /\ JsGt(cfg.delayBetweenBatches, Num(0))

\* The exit code once runStressTest has returned: with no request pending the
\* event loop is empty and Node ends the process with code 0.
ExitWhenIdle(reqs, code) ==
  IF code = NoExit /\ \A i \in 1..Len(reqs) : reqs[i].result # "pending"
    THEN { 0 }
    ELSE code

\* The head of the for loop at iteration b, with st the stats at that point:
\* either the batch is dispatched and the driver awaits it, or the loop is
\* left, endTime is taken (duration after startTime) and the report printed.
LoopIteration(b, st, duration) ==
  LET size == CurrentBatchSize(CONFIG', requestsPerBatch', b)
      finalStats == [st EXCEPT !.endTime = st.startTime + duration]
  IN IF JsLt(Num(b), numBatches') /\ ~JsLe(size, Num(0))
       THEN /\ pc' = "awaitBatch"
            /\ batch' = b
            /\ requests' = requests \o executeConcurrentRequests(b, size)
            /\ batchSizes' = Append(batchSizes, size)
            /\ stats' = st
            /\ report' = report
            /\ exitCode' = exitCode
       ELSE /\ pc' = "done"
            /\ batch' = b
            /\ requests' = requests
            /\ batchSizes' = batchSizes
            /\ stats' = StatsAfterPrint(finalStats)
            /\ report' = [ printed |-> TRUE, out |-> printStatistics(finalStats) ]
            /\ exitCode' = ExitWhenIdle(requests, exitCode)

\* ------------------------------------------------------------------ actions
\* Module load: CONFIG from the environment, stats zeroed.
Init ==
  /\ env \in Envs
  /\ argv = << >>
  /\ CONFIG = LoadConfig(env)
  /\ stats = InitStats
  /\ pc = "load"
  /\ batch = 0
  /\ numBatches = Num(0)
  /\ requestsPerBatch = Num(0)
  /\ requests = << >>
  /\ batchSizes = << >>
  /\ report = NoReport
  /\ exitCode = NoExit
  /\ suspensions = 0
  /\ agent = NoAgent
  /\ served = << >>
  /\ pctCall = NoCall

\* The main block: parseArgs(), then runStressTest() up to its first await
\* (or to its end when the loop runs no batch).  Time is counted from the
\* performance.now() that sets stats.startTime.
Main ==
  /\ pc = "load"
  /\ \E args \in Argvs, duration \in 1..MaxDuration :
       LET parsed == parseArgs(args, CONFIG) IN
       /\ argv' = args
       /\ CONFIG' = parsed.cfg
       /\ IF parsed.help
            THEN /\ pc' = "exited"
                 /\ exitCode' = { 0 }
                 /\ UNCHANGED << stats, batch, numBatches, requestsPerBatch,
                                 requests, batchSizes, report >>
            ELSE /\ WithinBounds(parsed.cfg)
                 /\ numBatches' = NumBatches(parsed.cfg)
                 /\ requestsPerBatch' = RequestsPerBatch(parsed.cfg, numBatches')
                 /\ LoopIteration(0, [stats EXCEPT !.startTime = 0], duration)
  /\ UNCHANGED << env, suspensions, pctCall, agent, served >>

\* The outcomes of one api.get.
Outcomes ==
  [ ok : { TRUE }, responseTime : ResponseTimes, message : { << >> } ]
    \cup [ ok : { FALSE }, responseTime : ResponseTimes, message : ErrorMessages ]

\* makeRequest from the settling of its api.get to its return.
makeRequest(st, requestId, outcome) ==
  IF outcome.ok
    THEN RecordSuccess(st, outcome.responseTime)
    ELSE RecordFailure(st, requestId, outcome.message, outcome.responseTime)

\* The api.get of one pending request settles and its makeRequest runs to its
\* return, which fulfils its promise.
RequestSettles ==
  /\ \E i \in 1..Len(requests), outcome \in Outcomes :
       /\ requests[i].result = "pending"
       /\ stats' = makeRequest(stats, requests[i].requestId, outcome)
       /\ requests' = [requests EXCEPT
                         ![i].result = IF outcome.ok THEN "success" ELSE "failure"]
  /\ exitCode' = IF pc = "done" THEN ExitWhenIdle(requests', exitCode) ELSE exitCode
  /\ UNCHANGED << env, argv, CONFIG, pc, batch, numBatches, requestsPerBatch,
                  batchSizes, report, suspensions, pctCall, agent, served >>

\* The await of executeConcurrentRequests returns: the driver goes on to the
\* inter-batch delay or to the next iteration.
BatchJoined ==
  /\ pc = "awaitBatch"
  /\ PromiseAll(requests, batch)
  /\ UNCHANGED << env, argv, CONFIG, numBatches, requestsPerBatch, pctCall, agent, served >>
  /\ IF DelayDue(CONFIG, numBatches, batch)
       THEN /\ pc' = "delay"
            /\ suspensions' = suspensions + 1
            /\ UNCHANGED << stats, batch, requests, batchSizes, report, exitCode >>
       ELSE /\ suspensions' = suspensions
            /\ \E duration \in 1..MaxDuration : LoopIteration(batch + 1, stats, duration)

\* The setTimeout of the inter-batch delay fires.
DelayElapsed ==
  /\ pc = "delay"
  /\ UNCHANGED << env, argv, CONFIG, numBatches, requestsPerBatch, suspensions, pctCall, agent, served >>
  /\ \E duration \in 1..MaxDuration : LoopIteration(batch + 1, stats, duration)

Next == Main \/ RequestSettles \/ BatchJoined \/ DelayElapsed

Spec == Init /\ [][Next]_vars

\* The script under a fair event loop: every api.get settles (with a response,
\* or with an error at the latest when its timeout expires), every setTimeout
\* of the inter-batch delay fires, and a continuation that is ready runs.
SpecLive ==
  /\ Spec
  /\ WF_vars(Main)
  /\ WF_vars(RequestSettles)
  /\ WF_vars(BatchJoined)
  /\ WF_vars(DelayElapsed)

\* ------------------------------------------------ a fatal orchestration error
\* (mutant) the catch block ends the process with code 0
CatchExitZero == { 0 }

\* The catch block of runStressTest: process.exit(1).
CatchExit == { 1 }

\* The code of the try block throws when the driver resumes after an await
\* (the source names no statement that does; this is the error the catch
\* block of runStressTest is written for): the catch block logs it and ends
\* the process.
OrchestrationError ==
  /\ \/ pc = "awaitBatch" /\ PromiseAll(requests, batch)
     \/ pc = "delay"
  /\ pc' = "aborted"
  /\ exitCode' = CatchExit
  /\ UNCHANGED << env, argv, CONFIG, stats, batch, numBatches, requestsPerBatch,
                  requests, batchSizes, report, suspensions, pctCall, agent, served >>

NextFault == Main \/ RequestSettles \/ BatchJoined \/ DelayElapsed \/ OrchestrationError

SpecFault == Init /\ [][NextFault]_vars

\* ------------------------------------------- calculatePercentile on its own
SeqsUpTo(S, n) == UNION { [1..k -> S] : k \in 0..n }

\* The sample lists: every list of up to MaxLen elapsed times (0 included),
\* and the list 10..50 in two orders.
SampleLists ==
  SeqsUpTo(0..MaxRT, MaxLen) \cup { << 10, 20, 30, 40, 50 >>, << 50, 10, 40, 20, 30 >> }

InitPct ==
  /\ env = EnvUnset
  /\ argv = << >>
  /\ CONFIG = LoadConfig(env)
  /\ stats = InitStats
  /\ pc = "load"
  /\ batch = 0
  /\ numBatches = Num(0)
  /\ requestsPerBatch = Num(0)
  /\ requests = << >>
  /\ batchSizes = << >>
  /\ report = NoReport
  /\ exitCode = NoExit
  /\ suspensions = 0
  /\ agent = NoAgent
  /\ served = << >>
  /\ pctCall \in [ values : SampleLists, percentile : 1..100, returned : { FALSE },
                   sorted : { << >> }, index : { 0 }, result : { 0 } ]

\* One call calculatePercentile(values, percentile).
CallPercentile ==
  /\ ~pctCall.returned
  /\ LET r == calculatePercentile(pctCall.values, pctCall.percentile) IN
       pctCall' = [pctCall EXCEPT !.returned = TRUE, !.sorted = r.sorted,
                                  !.index = r.index, !.result = r.result]
  /\ UNCHANGED << env, argv, CONFIG, stats, pc, batch, numBatches,
                  requestsPerBatch, requests, batchSizes, report, exitCode,
                  suspensions, agent, served >>

NextPct == CallPercentile

SpecPct == InitPct /\ [][NextPct]_vars

\* --------------------------------------------------------- the plan of batches
\* The batches of runStressTest depend on CONFIG alone, not on how the
\* requests end, so the loop is also stepped on its own, one iteration per
\* step, for request counts beyond those whose requests are followed one by
\* one.  CONFIG is what parseArgs leaves for --concurrent c --total t, with
\* and without --delay 0.
InitBatches ==
  /\ env = EnvUnset
  /\ argv = << >>
  /\ CONFIG \in { [ LoadConfig(EnvUnset) EXCEPT !.concurrentRequests = Num(c),
                                               !.totalRequests = Num(t),
                                               !.delayBetweenBatches = d ] :
                    c \in 0..MaxBatchConc, t \in 0..MaxBatchTotal,
                    d \in { Num(0), Num(DefaultDelayBetweenBatches) } }
  /\ stats = InitStats
  /\ pc = "plan"
  /\ batch = 0
  /\ numBatches = Num(0)
  /\ requestsPerBatch = Num(0)
  /\ requests = << >>
  /\ batchSizes = << >>
  /\ report = NoReport
  /\ exitCode = NoExit
  /\ suspensions = 0
  /\ agent = NoAgent
  /\ served = << >>
  /\ pctCall = NoCall

\* runStressTest up to its loop: numBatches and requestsPerBatch.
PlanBatches ==
  /\ pc = "plan"
  /\ numBatches' = NumBatches(CONFIG)
  /\ requestsPerBatch' = RequestsPerBatch(CONFIG, numBatches')
  /\ pc' = "loop"
  /\ UNCHANGED << env, argv, CONFIG, stats, batch, requests, batchSizes, report,
                  exitCode, suspensions, pctCall, agent, served >>

\* One iteration of the for loop, from its condition to batch++: the early
\* break, the batch (its requests left out) and the delay after it.
RunBatch ==
  /\ pc = "loop"
  /\ LET size == CurrentBatchSize(CONFIG, requestsPerBatch, batch)
     IN IF JsLt(Num(batch), numBatches) /\ ~JsLe(size, Num(0))
          THEN /\ batchSizes' = Append(batchSizes, size)
               /\ suspensions' = IF DelayDue(CONFIG, numBatches, batch)
                                   THEN suspensions + 1 ELSE suspensions
               /\ batch' = batch + 1
               /\ pc' = pc
          ELSE /\ pc' = "planned"
               /\ UNCHANGED << batch, batchSizes, suspensions >>
  /\ UNCHANGED << env, argv, CONFIG, stats, numBatches, requestsPerBatch, requests,
                  report, exitCode, pctCall, agent, served >>

NextBatches == PlanBatches \/ RunBatch

SpecBatches == InitBatches /\ [][NextBatches]_vars

\* ------------------------------------------------------ the New Relic agent
\* exports.config of newrelic.js, from the environment of the service.
NewRelicConfig(e) ==
  [ loaded              |-> TRUE,
    app_name            |-> << StrOr(e.NEW_RELIC_APP_NAME, "monitoring-app") >>,
    license_key         |-> e.NEW_RELIC_LICENSE_KEY,
    logging             |-> [ level |-> "info" ],
    allow_all_headers   |-> TRUE,
    application_logging |-> [ forwarding |-> [ enabled |-> TRUE ] ],
    distributed_tracing |->
      [ enabled |-> e.NEW_RELIC_DISTRIBUTED_TRACING_ENABLED = "true" ] ]

\* ------------------------------------------------------- the Express service
\* How many requests of the service are followed.
MaxServed == 2

\* Number.prototype.toFixed works on the decimal expansion of the double:
\* Math.PI is 3.141592653589793 (115997963... follows).
MathPI == [ whole |-> << 3 >>, fraction |-> << 1, 4, 1, 5, 9, 2, 6, 5, 3, 5, 8, 9, 7, 9, 3 >> ]

\* A digit sequence plus one in its last place.
RECURSIVE Increment(_)
Increment(digits) ==
  IF digits = << >> THEN << 1 >>
  ELSE LET front == SubSeq(digits, 1, Len(digits) - 1)
           last  == digits[Len(digits)]
       IN IF last = 9 THEN Increment(front) \o << 0 >>
          ELSE front \o << last + 1 >>

\* The characters of a digit sequence with its last n digits behind the point.
Decimal(digits, n) ==
  [ i \in 1..(Len(digits) + 1) |->
      IF i <= Len(digits) - n THEN DigitStr[digits[i]]
      ELSE IF i = Len(digits) - n + 1 THEN "."
      ELSE DigitStr[digits[i - 1]] ]

\* (mutant) toFixed cuts the expansion off and does not round
toFixedTruncated(x, n) == Decimal(x.whole \o SubSeq(x.fraction, 1, n), n)

\* x.toFixed(n), 0 < n < Len(x.fraction): the string of x rounded to n places.
toFixed(x, n) ==
  LET kept == x.whole \o SubSeq(x.fraction, 1, n)
  IN Decimal(IF x.fraction[n + 1] >= 5 THEN Increment(kept) ELSE kept, n)

\* The environments the service is started in (after dotenv).
SvcEnvUnset ==
  [ PORT |-> Undefined, NODE_ENV |-> Undefined, NEW_RELIC_APP_NAME |-> Undefined,
    NEW_RELIC_LICENSE_KEY |-> Undefined,
    NEW_RELIC_DISTRIBUTED_TRACING_ENABLED |-> Undefined ]
SvcEnvs ==
  { SvcEnvUnset,
    [ PORT |-> "8080", NODE_ENV |-> "production", NEW_RELIC_APP_NAME |-> "demo",
      NEW_RELIC_LICENSE_KEY |-> "key",
      NEW_RELIC_DISTRIBUTED_TRACING_ENABLED |-> "true" ],
    [ SvcEnvUnset EXCEPT !.NEW_RELIC_DISTRIBUTED_TRACING_ENABLED = "false" ] }

\* The requests sent to the service.  A path is its segments and whether a
\* slash ends it; a body is absent ("none"), or sent as application/json and
\* either a JSON object ("json") or no JSON at all ("malformed").
Methods == { "GET", "HEAD", "POST" }
Paths ==
  { [ segments |-> << >>, trailingSlash |-> FALSE ] }
    \cup [ segments : { << "health" >>, << "pi" >>, << "PI" >>, << "nope" >> },
           trailingSlash : { FALSE } ]
    \cup { [ segments |-> << "pi" >>, trailingSlash |-> TRUE ] }
Bodies == { "none", "json", "malformed" }
Requests == [ method : Methods, path : Paths, body : Bodies ]

\* Lower case of a path segment (routing is case-insensitive by default).
toLowerCase(segment) == IF segment = "PI" THEN "pi" ELSE segment

NoError == [ thrown |-> FALSE ]

\* express.json(): a body sent as JSON that does not parse is passed on as an
\* error (next(err), status 400), whatever the method and the path.
\* express.urlencoded() reads no body of these content types.
BodyParser(name, req) ==
  IF name = "json" /\ req.body = "malformed"
    THEN [ thrown |-> TRUE, status |-> 400, message |-> "Unexpected token" ]
    ELSE NoError

\* Does app.get(path) take the request?  HEAD is served by the GET route; case
\* and a trailing slash are ignored (case sensitive and strict routing are off).
RouteMatches(layer, req) ==
  /\ req.method \in { "GET", "HEAD" }
  /\ [ i \in 1..Len(req.path.segments) |-> toLowerCase(req.path.segments[i]) ]
       = layer.segments

\* res.status(status).json(json): on HEAD the body is not transmitted.
Respond(req, layer, status, json) ==
  [ status |-> status, json |-> json, bodySent |-> req.method # "HEAD", by |-> layer ]

HealthHandler(req, now, e) ==
  Respond(req, "health", 200,
          [ status      |-> "OK",
            timestamp   |-> now,
            uptime      |-> now,
            environment |-> StrOr(e.NODE_ENV, "development") ])

PiHandler(req, now) ==
  Respond(req, "pi", 200,
          [ pi |-> toFixed(MathPI, 9), digits |-> 10, timestamp |-> now ])

RootHandler(req) ==
  Respond(req, "root", 200,
          [ message   |-> "Monitoring API with New Relic Integration",
            version   |-> "1.0.0",
            endpoints |-> [ health |-> "/health", pi |-> "/pi" ] ])

ErrorMiddleware(err, req) ==
  Respond(req, "errorMiddleware", 500,
          [ error |-> "Something went wrong!", message |-> err.message ])

\* (mutant) the 404 handler forgets res.status(404)
NotFoundHandlerOk(req) ==
  Respond(req, "notFound", 200,
          [ error |-> "Endpoint not found",
            availableEndpoints |-> << "/health", "/pi", "/" >> ])

NotFoundHandler(req) ==
  Respond(req, "notFound", 404,
          [ error |-> "Endpoint not found",
            availableEndpoints |-> << "/health", "/pi", "/" >> ])

\* The middleware stack of app, in registration order.
Layers ==
  << [ kind |-> "parser", name |-> "json" ],
     [ kind |-> "parser", name |-> "urlencoded" ],
     [ kind |-> "route", name |-> "health", segments |-> << "health" >> ],
     [ kind |-> "route", name |-> "pi", segments |-> << "pi" >> ],
     [ kind |-> "route", name |-> "root", segments |-> << >> ],
     [ kind |-> "error", name |-> "errorMiddleware" ],
     [ kind |-> "use", name |-> "notFound" ] >>

\* Express hands the request down the stack from layer i: with an error
\* pending only error middleware is called, without one only the others; a
\* layer that responds ends the walk.  Past the last layer Express's own final
\* handler answers.  The result is every response written.
RECURSIVE Handle(_, _, _, _, _)
Handle(i, err, req, now, e) ==
  IF i > Len(Layers)
    THEN << Respond(req, "finalhandler", IF err.thrown THEN err.status ELSE 404,
                    [ html |-> TRUE ]) >>
  ELSE LET layer == Layers[i] IN
    CASE layer.kind = "parser" ->
           Handle(i + 1, IF err.thrown THEN err ELSE BodyParser(layer.name, req),
                  req, now, e)
      [] layer.kind = "route" ->
           IF ~err.thrown /\ RouteMatches(layer, req)
             THEN << CASE layer.name = "health" -> HealthHandler(req, now, e)
                       [] layer.name = "pi" -> PiHandler(req, now)
                       [] layer.name = "root" -> RootHandler(req) >>
             ELSE Handle(i + 1, err, req, now, e)
      [] layer.kind = "error" ->
           IF err.thrown THEN << ErrorMiddleware(err, req) >>
           ELSE Handle(i + 1, err, req, now, e)
      [] layer.kind = "use" ->
           IF ~err.thrown THEN << NotFoundHandler(req) >>
           ELSE Handle(i + 1, err, req, now, e)

\* The service is started: the agent has loaded its configuration and the
\* server listens.
InitSvc ==
  /\ env \in SvcEnvs
  /\ agent = NewRelicConfig(env)
  /\ served = << >>
  /\ pc = "listening"
  /\ argv = << >>
  /\ CONFIG = LoadConfig(EnvUnset)
  /\ stats = InitStats
  /\ batch = 0
  /\ numBatches = Num(0)
  /\ requestsPerBatch = Num(0)
  /\ requests = << >>
  /\ batchSizes = << >>
  /\ report = NoReport
  /\ exitCode = NoExit
  /\ suspensions = 0
  /\ pctCall = NoCall

\* One request is handled, at the time given by its place in the history.
Serve ==
  /\ pc = "listening"
  /\ Len(served) < MaxServed
  /\ \E req \in Requests :
       served' = Append(served, [ request   |-> req,
                                  responses |-> Handle(1, NoError, req, Len(served) + 1, env) ])
  /\ UNCHANGED << env, argv, CONFIG, stats, pc, batch, numBatches, requestsPerBatch,
                  requests, batchSizes, report, exitCode, suspensions, pctCall, agent >>

NextSvc == Serve

SpecSvc == InitSvc /\ [][NextSvc]_vars

\* =================================================================== claims
\* Helpers of the claims' formulas.
Started == pc \in { "awaitBatch", "delay", "done" }

Pending == { i \in 1..Len(requests) : requests[i].result = "pending" }

Succeeded == { i \in 1..Len(requests) : requests[i].result = "success" }

Failed == { i \in 1..Len(requests) : requests[i].result = "failure" }

\* a >= b on JS numbers
JsGe(a, b) == JsLe(b, a)

\* concurrency >= 1 and totalRequests >= n, both numbers
ConfigAtLeast(n) ==
  /\ JsGe(CONFIG.concurrentRequests, Num(1))
  /\ JsGe(CONFIG.totalRequests, Num(n))

RECURSIVE SumSizes(_)
SumSizes(sizes) ==
  IF sizes = << >> THEN Num(0)
  ELSE LET rest == SumSizes(Tail(sizes))
       IN IF IsNum(Head(sizes)) /\ IsNum(rest) THEN Num(Head(sizes).v + rest.v) ELSE NaN

\* C1: for every configuration with a concurrency >= 1 and a request count
\* >= 0, numBatches * requestsPerBatch >= totalRequests as runStressTest
\* computes them, and once the loop is left the sizes of the executed batches
\* sum to totalRequests.
C1_BatchArithmetic ==
  (Started /\ ConfigAtLeast(0)) =>
    /\ JsGe(JsMul(numBatches, requestsPerBatch), CONFIG.totalRequests)
    /\ pc = "done" => SumSizes(batchSizes) = CONFIG.totalRequests

\* C2: join barrier.  A request is unresolved only while the driver awaits its
\* own batch: no request of a later batch exists while a request of an earlier
\* batch is pending, and the driver is past the await (delaying, or done) only
\* when nothing is pending, whatever the outcomes were.
C2_JoinBarrier ==
  /\ \A i \in Pending : pc = "awaitBatch" /\ requests[i].batch = batch
  /\ \A i, j \in 1..Len(requests) :
       requests[i].batch < requests[j].batch => requests[i].result # "pending"

\* C2 witness: a second batch is in flight after a first batch in which a
\* request failed.
C2_Witness ==
  /\ \E i \in Failed : requests[i].batch = 0
  /\ \E j \in Pending : requests[j].batch = 1

\* C3: with totalRequests >= 1 and concurrency >= 1, the number of requests
\* in flight never exceeds the configured concurrency.
C3_InFlightBound ==
  ConfigAtLeast(1) => JsLe(Num(Cardinality(Pending)), CONFIG.concurrentRequests)

\* C3 witness: a whole batch of `concurrency` >= 2 requests is in flight in a
\* run of more than one batch.
C3_Witness ==
  /\ ConfigAtLeast(1)
  /\ Cardinality(Pending) >= 2
  /\ Num(Cardinality(Pending)) = CONFIG.concurrentRequests
  /\ JsGt(numBatches, Num(1))

\* C4: between any two steps of the event loop and at the end of the run,
\* stats.totalRequests = stats.successfulRequests + stats.failedRequests.
C4_TotalIsSum ==
  stats.totalRequests = stats.successfulRequests + stats.failedRequests

\* C4 witness: in the middle of a batch, after a success and a failure, with a
\* request still in flight.
C4_Witness ==
  /\ stats.successfulRequests >= 1
  /\ stats.failedRequests >= 1
  /\ Pending # { }

\* C5: no update of the statistics is lost: the three counters equal the
\* number of requests resolved, succeeded and failed, whatever the order of
\* completion, and after a run totalRequests is the number of requests issued.
C5_NoLostUpdate ==
  /\ stats.totalRequests = Cardinality(Succeeded) + Cardinality(Failed)
  /\ stats.successfulRequests = Cardinality(Succeeded)
  /\ stats.failedRequests = Cardinality(Failed)
  /\ pc = "done" => stats.totalRequests = Len(requests)

\* C5 witness: a finished run with a batch of several concurrent requests in
\* which the later-issued request completed first, with both outcomes.
C5_Witness ==
  /\ pc = "done"
  /\ stats.successfulRequests >= 1
  /\ Len(stats.errors) >= 2
  /\ stats.errors[1].requestId > stats.errors[2].requestId
  /\ \E i, j \in 1..Len(requests) : i # j /\ requests[i].batch = requests[j].batch

\* C6: with totalRequests >= 1 and concurrency >= 1, never more than
\* totalRequests GETs are issued (no request is issued again), and at the end
\* of the run exactly totalRequests were, however many of them failed.
C6_OneAttemptEach ==
  ConfigAtLeast(1) =>
    /\ JsLe(Num(Len(requests)), CONFIG.totalRequests)
    /\ pc = "done" => Num(Len(requests)) = CONFIG.totalRequests

\* C6 witness: a finished run of several batches and three requests in which
\* every request failed.
C6_Witness ==
  /\ pc = "done"
  /\ ConfigAtLeast(3)
  /\ Len(batchSizes) >= 2
  /\ Cardinality(Failed) = Len(requests)

\* C7: with totalRequests = 0 no batch runs and no request is issued, and the
\* report shows zero counts with a success rate and a throughput that are
\* numbers, not the result of an undefined division.
C7_ZeroRequestsReport ==
  (pc = "done" /\ CONFIG.totalRequests = Num(0)) =>
    /\ requests = << >>
    /\ batchSizes = << >>
    /\ report.out.totalRequests = 0
    /\ report.out.successful = 0
    /\ report.out.failed = 0
    /\ IsNum(report.out.successRate)
    /\ IsNum(report.out.requestsPerSecond)

\* C8: the identifiers handed to makeRequest, in issue order, are strictly
\* increasing (hence pairwise distinct).
C8_IdsIncrease ==
  \A i, j \in 1..Len(requests) :
    i < j => requests[i].requestId < requests[j].requestId

\* The settings as the precedence rule gives them: the value after the flag
\* if the flag is on the command line, otherwise the environment variable's
\* value if it is set (to a number, 0 included, or to a non-empty URL),
\* otherwise the built-in default.
FlagGiven(flag) == \E i \in 1..Len(argv) : argv[i] = flag

FlagValue(flag) ==
  LET last == CHOOSE i \in 1..Len(argv) :
                /\ argv[i] = flag
                /\ \A j \in 1..Len(argv) : argv[j] = flag => j <= i
  IN ArgAt(argv, last + 1)

ExpectedNumber(flag, variable, default) ==
  IF FlagGiven(flag) THEN parseInt(FlagValue(flag))
  ELSE IF variable # Undefined /\ ~IsNaN(parseInt(variable)) THEN parseInt(variable)
  ELSE Num(default)

ExpectedURL ==
  IF FlagGiven("--base-url") THEN FlagValue("--base-url")
  ELSE IF env.BASE_URL # Undefined /\ env.BASE_URL # "" THEN env.BASE_URL
  ELSE DefaultBaseURL

\* C9: in a run, each of concurrency, total, delay, timeout and base URL is
\* the flag's value, else the environment variable's value (0 included), else
\* the default.
C9_Precedence ==
  Started =>
    /\ CONFIG.concurrentRequests =
         ExpectedNumber("--concurrent", env.CONCURRENT_REQUESTS, DefaultConcurrentRequests)
    /\ CONFIG.totalRequests =
         ExpectedNumber("--total", env.TOTAL_REQUESTS, DefaultTotalRequests)
    /\ CONFIG.delayBetweenBatches =
         ExpectedNumber("--delay", env.DELAY_BETWEEN_BATCHES, DefaultDelayBetweenBatches)
    /\ CONFIG.timeout = ExpectedNumber("--timeout", env.TIMEOUT, DefaultTimeout)
    /\ CONFIG.baseURL = ExpectedURL

\* The nearest-rank value of a non-empty list: with k the least integer
\* >= p/100 * count, at least k samples are <= it and fewer than k are below it.
IsNearestRank(values, p, r) ==
  LET n == Len(values)
      k == CHOOSE m \in 1..n : 100 * m >= p * n /\ 100 * (m - 1) < p * n
  IN /\ \E i \in 1..n : values[i] = r
     /\ Cardinality({ i \in 1..n : values[i] <= r }) >= k
     /\ Cardinality({ i \in 1..n : values[i] < r }) < k

SuccessFields(st) ==
  << st.minResponseTime, st.maxResponseTime, st.totalResponseTime, st.responseTimes >>

\* C11: once a success is recorded, minResponseTime <= t <= maxResponseTime
\* for every t of responseTimes, in every state; and a step in which a request
\* fails leaves min, max, the cumulative time and responseTimes as they were.
C11_MinMaxBracket ==
  /\ [](stats.successfulRequests >= 1 =>
          \A i \in 1..Len(stats.responseTimes) :
            /\ JsLe(stats.minResponseTime, Num(stats.responseTimes[i]))
            /\ JsLe(Num(stats.responseTimes[i]), stats.maxResponseTime))
  /\ [][stats'.failedRequests > stats.failedRequests =>
          SuccessFields(stats') = SuccessFields(stats)]_vars

\* C11 witness: two successes with different elapsed times, the slower one
\* first, and then a failure slower than the fastest success.
C11_Witness ==
  /\ stats.responseTimes = << 2, 1 >>
  /\ stats.minResponseTime = Num(1)
  /\ stats.maxResponseTime = Num(2)
  /\ Len(stats.errors) = 1
  /\ stats.errors[1].responseTime = 2
  /\ stats.totalRequests = 3


\* C12: the process ends with code 0 after a normal completion (report
\* printed, whatever the outcomes) and after --help (no request issued); it
\* ends with code 1 exactly when the catch block of runStressTest was reached,
\* without a report; and once it has an exit code no request and no batch is
\* started any more.
C12_ExitCodes ==
  /\ [](/\ pc = "done" => (exitCode = { 0 } /\ report.printed)
        /\ pc = "exited" => (exitCode = { 0 } /\ FlagGiven("--help") /\ requests = << >>)
        /\ exitCode = { 1 } <=> pc = "aborted"
        /\ pc = "aborted" => ~report.printed
        /\ exitCode # NoExit => pc \in { "done", "exited", "aborted" })
  /\ [][exitCode # NoExit =>
          (requests' = requests /\ batchSizes' = batchSizes /\ exitCode' = exitCode)]_vars

\* C12 witness: the run was aborted with code 1 after its first batch, in
\* which a request had failed, with requests of the run still to be issued.
C12_Witness ==
  /\ pc = "aborted"
  /\ exitCode = { 1 }
  /\ Len(batchSizes) = 1
  /\ Failed # { }
  /\ JsLt(Num(Len(requests)), CONFIG.totalRequests)

\* The larger of batches - 1 and 0.
DelaysBetween(batches) == IF batches > 0 THEN batches - 1 ELSE 0

\* C16: the driver is suspended only between two batches: a suspension begins
\* with every request resolved and none in flight, and with requests still
\* to be issued (never after the last batch).  With delayBetweenBatches > 0
\* the k-th batch runs after k - 1 suspensions and a run of B batches ends
\* with B - 1; with a delay of 0 there is none.
C16_DelayBetweenBatches ==
  /\ pc = "delay" =>
       /\ Pending = { }
       /\ JsGt(CONFIG.delayBetweenBatches, Num(0))
       /\ suspensions = Len(batchSizes)
       /\ JsLt(SumSizes(batchSizes), CONFIG.totalRequests)
  /\ (pc \in { "awaitBatch", "done" } /\ JsGt(CONFIG.delayBetweenBatches, Num(0))) =>
       suspensions = DelaysBetween(Len(batchSizes))
  /\ CONFIG.delayBetweenBatches = Num(0) => suspensions = 0

\* C16 witness: a finished run of three batches with a positive delay and two
\* suspensions.
C16_Witness ==
  /\ pc = "done"
  /\ JsGt(CONFIG.delayBetweenBatches, Num(0))
  /\ Len(batchSizes) = 3
  /\ suspensions = 2


\* C17: for every totalRequests >= 1 and concurrency >= 1, the sizes of any two
\* batches of a run differ by at most one request.
C17_EvenBatches ==
  ConfigAtLeast(1) =>
    \A i, j \in 1..Len(batchSizes) :
      /\ batchSizes[i].v - batchSizes[j].v <= 1
      /\ batchSizes[j].v - batchSizes[i].v <= 1

\* C18: for every totalRequests >= 1 and concurrency >= 1 every executed batch
\* has at least one request, and the loop ends at its own bound, batch =
\* numBatches, after exactly ceil(totalRequests / concurrency) batches (the
\* least B with B * concurrency >= totalRequests): the early break never ends
\* it.
C18_BatchCount ==
  ConfigAtLeast(1) =>
    /\ \A i \in 1..Len(batchSizes) : JsGe(batchSizes[i], Num(1))
    /\ pc = "planned" =>
         /\ Num(batch) = numBatches
         /\ Len(batchSizes) = batch
         /\ batch * CONFIG.concurrentRequests.v >= CONFIG.totalRequests.v
         /\ (batch - 1) * CONFIG.concurrentRequests.v < CONFIG.totalRequests.v

\* C18 witness: concurrency 5 and 12 requests end after exactly 3 batches.
C18_Witness ==
  /\ pc = "planned"
  /\ CONFIG.concurrentRequests = Num(5)
  /\ CONFIG.totalRequests = Num(12)
  /\ Len(batchSizes) = 3
  /\ batch = 3


\* The sum of the counts of an errorTypes object.
RECURSIVE SumCounts(_, _)
SumCounts(types, keys) ==
  IF keys = { } THEN 0
  ELSE LET key == CHOOSE k \in keys : TRUE
       IN types[key] + SumCounts(types, keys \ { key })

\* The entries of stats.errors that carry the identifier id.
ErrorsOf(id) == { e \in 1..Len(stats.errors) : stats.errors[e].requestId = id }

\* C19: in every state stats.errors holds exactly one entry per failed
\* request, with the request's identifier, the message and the elapsed time of
\* its failure, so stats.errors.length = stats.failedRequests; and the grouped
\* counts of the printed report sum to stats.failedRequests.
C19_ErrorsCaptured ==
  /\ Len(stats.errors) = stats.failedRequests
  /\ stats.failedRequests = Cardinality(Failed)
  /\ \A i \in 1..Len(requests) :
       Cardinality(ErrorsOf(requests[i].requestId)) =
         Cardinality({ j \in Failed : requests[j].requestId = requests[i].requestId })
  /\ \A e \in 1..Len(stats.errors) :
       /\ \E j \in Failed : requests[j].requestId = stats.errors[e].requestId
       /\ stats.errors[e].error \in ErrorMessages
       /\ stats.errors[e].responseTime \in ResponseTimes
  /\ report.printed =>
       /\ report.out.failed = stats.failedRequests
       /\ \A key \in DOMAIN report.out.errorTypes :
            \E e \in 1..Len(stats.errors) :
              key = IF Len(stats.errors[e].error) > 1
                      THEN << stats.errors[e].error[1] >>
                      ELSE stats.errors[e].error
       /\ SumCounts(report.out.errorTypes, DOMAIN report.out.errorTypes)
            = stats.failedRequests

\* C19 witness: a report after three failures of two kinds, one of them twice.
C19_Witness ==
  /\ report.printed
  /\ stats.failedRequests = 3
  /\ Len(stats.errors) = 3
  /\ Cardinality(DOMAIN report.out.errorTypes) = 2
  /\ \E key \in DOMAIN report.out.errorTypes : report.out.errorTypes[key] = 2


\* The run is over: the report is printed with endTime set (time is counted
\* from startTime and has advanced), every configured request is accounted
\* and none is in flight.
Finished ==
  /\ pc = "done"
  /\ report.printed
  /\ stats.endTime > stats.startTime
  /\ report.out.duration = stats.endTime - stats.startTime
  /\ Num(stats.totalRequests) = CONFIG.totalRequests
  /\ report.out.totalRequests = stats.totalRequests
  /\ Pending = { }

\* C20: with totalRequests >= 0 and concurrency >= 1, under a fair event loop
\* every started run eventually finishes: endTime set, the report printed with
\* stats.totalRequests = CONFIG.totalRequests; the report is printed once (it
\* and the statistics never change afterwards) and never while a request is in
\* flight.
C20_Termination ==
  /\ (Started /\ ConfigAtLeast(0)) ~> Finished
  /\ [](report.printed => (pc = "done" /\ Pending = { }))
  /\ [][report.printed => (report' = report /\ stats' = stats)]_vars

\* C20 witness: a finished run of three requests in two batches, one of them
\* failed.
C20_Witness ==
  /\ Finished
  /\ CONFIG.totalRequests = Num(3)
  /\ Len(batchSizes) = 2
  /\ stats.failedRequests = 1


\* The path /pi, as written.
PathPi == [ segments |-> << "pi" >>, trailingSlash |-> FALSE ]

\* The three paths of the service, as written.
PathsListed == { [ segments |-> sg, trailingSlash |-> FALSE ] :
                   sg \in { << >>, << "health" >>, << "pi" >> } }

\* The string "3.141592654".
PiLiteral == << "3", ".", "1", "4", "1", "5", "9", "2", "6", "5", "4" >>

\* The exchange got one response, 200 with pi "3.141592654" and digits 10.
PiAnswered(x) ==
  /\ Len(x.responses) = 1
  /\ x.responses[1].status = 200
  /\ x.responses[1].by = "pi"
  /\ x.responses[1].bodySent
  /\ x.responses[1].json.pi = PiLiteral
  /\ x.responses[1].json.digits = 10

\* C13 (as stated): every GET /pi request gets HTTP 200 with pi "3.141592654"
\* and digits 10, whatever was requested before it.
C13_PiAlways ==
  \A k \in 1..Len(served) :
    (served[k].request.method = "GET" /\ served[k].request.path = PathPi)
      => PiAnswered(served[k])

\* C13 (amended): every GET /pi request whose body, if it has one, the body
\* parsers accept gets HTTP 200 with pi "3.141592654" and digits 10, whatever
\* was requested before it.
C13_PiWhenParsed ==
  \A k \in 1..Len(served) :
    (/\ served[k].request.method = "GET"
     /\ served[k].request.path = PathPi
     /\ served[k].request.body # "malformed")
      => PiAnswered(served[k])

\* C13 witness: GET /pi answered 200 right after a GET /pi with a body that is
\* no JSON was answered 500.
C13_Witness ==
  /\ Len(served) = 2
  /\ served[1].request = [ method |-> "GET", path |-> PathPi, body |-> "malformed" ]
  /\ served[1].responses[1].status = 500
  /\ served[2].request = [ method |-> "GET", path |-> PathPi, body |-> "json" ]
  /\ PiAnswered(served[2])

\* The exchange got one response, from the 404 handler: 404 with the three
\* endpoints (on HEAD without the body on the wire).
NotFoundAnswered(x) ==
  /\ Len(x.responses) = 1
  /\ x.responses[1].status = 404
  /\ x.responses[1].by = "notFound"
  /\ x.responses[1].json.availableEndpoints = << "/health", "/pi", "/" >>

\* C14 (as stated): every request whose method and path are none of GET /,
\* GET /health, GET /pi gets exactly one response, 404 listing /health, /pi
\* and /, and not from the error middleware.
C14_UnmatchedGets404 ==
  \A k \in 1..Len(served) :
    ~(served[k].request.method = "GET" /\ served[k].request.path \in PathsListed)
      => (NotFoundAnswered(served[k]) /\ served[k].responses[1].bodySent)

\* Express matches the request to one of the three routes: GET or HEAD, the
\* path compared without case and without a trailing slash.
Routed(req) ==
  /\ req.method \in { "GET", "HEAD" }
  /\ \E p \in PathsListed :
       Len(p.segments) = Len(req.path.segments) /\
       \A i \in 1..Len(p.segments) :
         \/ req.path.segments[i] = p.segments[i]
         \/ (req.path.segments[i] = "PI" /\ p.segments[i] = "pi")

\* C14 (amended): every request that Express matches to none of the three
\* routes (it serves HEAD by the GET routes and ignores case and a trailing
\* slash) and whose body, if it has one, the body parsers accept gets exactly
\* one response, 404 listing /health, /pi and /, from the 404 handler and not
\* from the error middleware; the body is on the wire unless the method is HEAD.
C14_UnroutedGets404 ==
  \A k \in 1..Len(served) :
    (~Routed(served[k].request) /\ served[k].request.body # "malformed")
      => /\ NotFoundAnswered(served[k])
         /\ served[k].responses[1].bodySent <=> served[k].request.method # "HEAD"

\* C14 witness: POST /pi with a JSON body and HEAD /nope both answered 404.
C14_Witness ==
  /\ Len(served) = 2
  /\ served[1].request = [ method |-> "POST", path |-> PathPi, body |-> "json" ]
  /\ NotFoundAnswered(served[1])
  /\ served[2].request.method = "HEAD"
  /\ served[2].request.path.segments = << "nope" >>
  /\ NotFoundAnswered(served[2])

\* C15: distributed_tracing.enabled is true when
\* NEW_RELIC_DISTRIBUTED_TRACING_ENABLED is unset, and otherwise is whether the
\* variable says true.
C15_TracingDefault ==
  agent.loaded =>
    agent.distributed_tracing.enabled =
      IF env.NEW_RELIC_DISTRIBUTED_TRACING_ENABLED = Undefined
        THEN TRUE
        ELSE env.NEW_RELIC_DISTRIBUTED_TRACING_ENABLED = "true"

====
